---- MODULE Spec2Model ----
(***************************************************************************)
(* Poll voting of leoconnect-backend: controllers/pollController.js        *)
(* (voteOnPoll) over models/Poll.js (pollSchema and its pre('save') hook). *)
(*                                                                         *)
(* Every request is an async handler: it runs between its awaits without   *)
(* interruption, and other requests run while it awaits the store.  The    *)
(* awaits of voteOnPoll are Poll.findById, poll.save and poll.populate, so *)
(* a cast is four steps: the read, the synchronous checks and in-memory    *)
(* mutation, the save (pre('save') hook, then the write), the populate     *)
(* followed by the response.                                               *)
(*                                                                         *)
(* poll.save() of a loaded document writes the paths the document has      *)
(* marked modified, as one atomic update of the stored document: a pushed  *)
(* sub-document is appended to the stored array, a field that was assigned *)
(* a different value is set at its path (votes.<k>.optionIndex,            *)
(* options.<j>.votes).  pollSchema sets no optimisticConcurrency option    *)
(* and no operation of voteOnPoll advances the version key, so the write   *)
(* carries no condition that a concurrent cast can falsify.                *)
(*                                                                         *)
(* The poll lifecycle (createPoll, and PUT and DELETE /polls/:id of        *)
(* routes/polls.js behind middleware/roleCheck.js) and the read operations *)
(* (getPoll, getPolls, getPollResults) are operations of a second kind of  *)
(* request, `ops`, each an async handler split at its awaits in the same    *)
(* way.  Spec is the casts alone, with the store failing and time passing; *)
(* CreateSpec is POST /polls with every body; LifeSpec is every route      *)
(* together; ViewSpec is the listing, the results and the casts as time    *)
(* passes, over every endDate; TallySpec is the recount of pre('save') and *)
(* the results over every ledger and counters; EditSpec is the casts and   *)
(* PUT /polls/:id with bodies that replace isActive, allowMultiple, votes  *)
(* or options; ListSpec is GET /polls and GET /polls/active/all over every *)
(* isActive, isPublic and endDate.  Outside Spec the store answers every   *)
(* operation.                                                              *)
(*                                                                         *)
(* PUT /super-admin/users/:id/role (updateUserRole of                      *)
(* controllers/superAdminController.js over models/User.js) is a request   *)
(* of the second kind in three steps: protect, requireSuperAdmin and the   *)
(* validation; User.findById and the guard of the super admins; the save   *)
(* of addRoleHistory and the response.  RoleSpec is these requests over    *)
(* every caller, passcode and configured passcode.                         *)
(***************************************************************************)
EXTENDS Integers, Sequences, FiniteSets, TLC

\* ---------------------------------------------------------------- bounds
MaxReq == 2         \* request slots (casts that may be in flight together)
MaxNow == 2         \* the clock runs 0..MaxNow
MaxLedger == 2      \* entries of a ledger, and votes of a counter, of a
                    \* stored poll that is drawn rather than created

Reqs    == 1..MaxReq
Voters  == {"u1", "u2"}
Users   == Voters \cup {"u3"}
Roles   == {"leo_member", "webmaster", "super_admin"}
PollIds == {"p1", "p2"}     \* "p1" is stored, "p2" is an id with no document

\* ------------------------------------------------------- request inputs
\* req.body.optionIndex as JavaScript sees it: an integer n, a non-integer
\* number n + 1/2, or undefined (the field is missing).
IntIdx(n)  == [kind |-> "int",   n |-> n]
FracIdx(n) == [kind |-> "frac",  n |-> n]
Undef      == [kind |-> "undef", n |-> 0]

OptionInputs == {IntIdx(n) : n \in -1..2} \cup {FracIdx(0), Undef}

\* optionIndex < 0 (pollController.js:163): false for undefined (NaN)
JsLtZero(oi) == oi.kind # "undef" /\ oi.n < 0

\* optionIndex >= poll.options.length: n + 1/2 >= len iff n >= len
JsGeLen(oi, len) == oi.kind # "undef" /\ oi.n >= len

\* poll.options[optionIndex] is an element of the array
Resolves(oi, len) == oi.kind = "int" /\ 0 <= oi.n /\ oi.n < len

\* ------------------------------------------------------------ documents
NoPoll ==
    [exists |-> FALSE, options |-> <<>>, votes |-> <<>>,
     endDate |-> 0, allowMultiple |-> FALSE,
     createdBy |-> "", isActive |-> FALSE,
     isPublic |-> FALSE, isPinned |-> FALSE, showResults |-> FALSE,
     club |-> "", district |-> ""]

NewPoll(multi) ==
    [exists |-> TRUE,
     options |-> <<[text |-> "Red", votes |-> 0], [text |-> "Blue", votes |-> 0]>>,
     votes |-> <<>>,
     endDate |-> 1,
     allowMultiple |-> multi,
     createdBy |-> "u1", isActive |-> TRUE,
     isPublic |-> TRUE, isPinned |-> FALSE, showResults |-> TRUE,
     club |-> "c1", district |-> "d1"]

NoMem == [loaded |-> NoPoll, doc |-> NoPoll, pushed |-> 0, setIdx |-> 0]
NoArg == [user |-> "u1", optionIndex |-> Undef, pid |-> "p2"]
NoResp == [status |-> 0, message |-> "", totalVotes |-> 0]
NoHist == [priorAck |-> FALSE, wrote |-> FALSE, fault |-> "none"]

Fail(status, message) == [status |-> status, message |-> message, totalVotes |-> 0]

\* ------------------------------------------- lifecycle and read requests
\* req.body.options of POST /polls: the field is missing, is an array of
\* texts, or is a value that is no array and has no length (an object)
Missing      == [kind |-> "missing", list |-> <<>>]
NotAnArray   == [kind |-> "object",  list |-> <<>>]
Array(list)  == [kind |-> "array",   list |-> list]

\* the option texts of the requests; "Long" stands for a text of 201
\* characters, "" is the empty text
Texts == {"Red", "red", "Blue", "", "Long"}
TextLen(t) == CASE t = "" -> 0 [] t = "Long" -> 201 [] t = "Blue" -> 4 [] OTHER -> 3
Lower(t)   == CASE t = "Red" -> "red" [] t = "Blue" -> "blue" [] t = "Long" -> "long"
                [] OTHER -> t

Eleven == <<"Red", "Blue", "o3", "o4", "o5", "o6", "o7", "o8", "o9", "o10", "o11">>

CreateBodies ==
    {Missing, NotAnArray, Array(Eleven)}
    \cup {Array(<<>>), Array(<<"Red">>), Array(<<"">>)}
    \cup {Array(<<"Red", t>>) : t \in Texts}

\* req.body of PUT /polls/:id: the fields it carries and their values
NoPatch == [has |-> {}, isActive |-> FALSE, allowMultiple |-> FALSE,
            votes |-> <<>>, options |-> <<>>]
SetIsActive(b)      == [NoPatch EXCEPT !.has = {"isActive"}, !.isActive = b]
SetAllowMultiple(b) == [NoPatch EXCEPT !.has = {"allowMultiple"}, !.allowMultiple = b]
SetVotes(ledger)    == [NoPatch EXCEPT !.has = {"votes"}, !.votes = ledger]
SetOptions(list)    == [NoPatch EXCEPT !.has = {"options"}, !.options = list]

UpdateBodies ==
    {SetIsActive(FALSE), SetAllowMultiple(TRUE), SetVotes(<<>>), SetOptions(<<"Red">>)}

\* what a response carries besides status and message: the poll of getPoll,
\* createPoll and PUT; totalVotes, results and hasEnded of getPollResults;
\* the ids of the polls of getPolls
NoView == [doc |-> NoPoll, totalVotes |-> 0, results |-> <<>>, hasEnded |-> FALSE,
           listed |-> {}]

\* req.body.passcode of a role update: missing, of 4 characters, of 5
Passcodes == {"", "1234", "9999", "12345"}
PasscodeLen(p) == CASE p = "" -> 0 [] p = "12345" -> 5 [] OTHER -> 4

\* process.env.SUPER_ADMIN_PASSCODE: '1234' or another passcode
Envs == {"1234", "9999"}

\* a role update: req.body.passcode and, of one that has passed its
\* checks, req.params.id, req.body.newRole and, once the user is loaded,
\* previousRole
NoGrant == [passcode |-> "", target |-> "u1", newRole |-> "", previousRole |-> ""]

\* a lifecycle or read request: pc is idle, authed (protect has set req.user),
\* checked (the ownership check has passed) or done; club is req.query.club
\* of a listing ("" when the query has none)
NoOp == [kind |-> "none", pc |-> "idle", user |-> "u1", role |-> "", pid |-> "p2",
         options |-> Missing, patch |-> NoPatch, status |-> 0, message |-> "",
         club |-> "", grant |-> NoGrant, view |-> NoView]

VARIABLES
    polls,      \* the stored Poll collection: PollIds -> document
    now,        \* the clock (new Date())
    pc,         \* each request's position: idle, loaded, save, populate, done
    arg,        \* each request's req.user.id, req.body.optionIndex, req.params.id
                \* (kept after the response only for a cast that was written)
    mem,        \* each request's document `poll`: as loaded, as it is now in
                \* memory (doc), and the ledger paths it has marked modified
    resp,       \* each request's response
    hist,       \* history of each request, read by the properties only:
                \* priorAck  the voter held an acknowledged vote when it read
                \* wrote     its save was applied to the stored poll
                \* fault     the await of it that the store failed ("conflict": the
                \*           save, after another cast had changed the poll)
    roles,      \* the stored User collection: Users -> role
    minted,     \* the poll ids the store has generated so far
    ops,        \* each lifecycle or read request (see NoOp)
    roleHistory,\* the stored User collection: Users -> roleHistory
    env         \* process.env.SUPER_ADMIN_PASSCODE

users == <<roles, roleHistory, env>>
others == <<roles, minted, ops, roleHistory, env>>
vars == <<polls, now, pc, arg, mem, resp, hist, roles, minted, ops, roleHistory, env>>

\* --------------------------------------------------------------- helpers
\* pollSchema.virtual('totalVotes')
totalVotes(doc) == Len(doc.votes)

\* poll.votes.find(vote => vote.user.toString() === req.user.id): the
\* position (1-based) of the first entry of the user, 0 when there is none
existingVote(votes, u) ==
    IF \E k \in 1..Len(votes) : votes[k].user = u
    THEN CHOOSE k \in 1..Len(votes) :
            votes[k].user = u /\ \A j \in 1..(k - 1) : votes[j].user # u
    ELSE 0

\* number of ledger entries whose optionIndex is i (0-based)
CountFor(votes, i) == Cardinality({k \in 1..Len(votes) : votes[k].optionIndex = i})

\* faulty variant: the poll counts as ended at its endDate already
PollEndedAtEndDate(doc, t) == doc.endDate <= t

\* new Date(poll.endDate) < new Date()
PollEnded(doc, t) == doc.endDate < t

\* faulty variant: the counters are not reset before the ledger is counted
preSaveNoReset(doc) ==
    [doc EXCEPT !.options =
        [j \in 1..Len(doc.options) |->
            [doc.options[j] EXCEPT !.votes = @ + CountFor(doc.votes, j - 1)]]]

\* pollSchema.pre('save'): reset every option's votes, then count the ledger,
\* skipping an entry whose optionIndex has no option
preSave(doc) ==
    [doc EXCEPT !.options =
        [j \in 1..Len(doc.options) |->
            [doc.options[j] EXCEPT !.votes = CountFor(doc.votes, j - 1)]]]

\* no request has arrived; the passcode is configured as e
QuietWith(e) ==
    /\ env = e
    /\ now = 0
    /\ pc = [r \in Reqs |-> "idle"]
    /\ arg = [r \in Reqs |-> NoArg]
    /\ mem = [r \in Reqs |-> NoMem]
    /\ resp = [r \in Reqs |-> NoResp]
    /\ hist = [r \in Reqs |-> NoHist]
    /\ roles = [u \in Users |-> CASE u = "u1" -> "webmaster"
                                  [] u = "u3" -> "super_admin"
                                  [] OTHER    -> "leo_member"]
    /\ minted = {"p1"}
    /\ ops = [r \in Reqs |-> NoOp]
    /\ roleHistory = [u \in Users |-> <<>>]

Quiet == QuietWith("1234")

Init ==
    /\ \E multi \in BOOLEAN :
         polls = [p \in PollIds |-> IF p = "p1" THEN NewPoll(multi) ELSE NoPoll]
    /\ Quiet

\* ------------------------------------------------------------ voteOnPoll
Done(r, response) ==
    /\ pc' = [pc EXCEPT ![r] = "done"]
    /\ resp' = [resp EXCEPT ![r] = response]
    /\ mem' = [mem EXCEPT ![r] = NoMem]

\* a request that ends without having written leaves its response and history
Dropped(r, response, fault) ==
    /\ Done(r, response)
    /\ arg' = [arg EXCEPT ![r] = NoArg]
    /\ hist' = [hist EXCEPT ![r] = [NoHist EXCEPT !.fault = fault,
                                                  !.priorAck = hist[r].priorAck]]

\* requests take the slots in the order they arrive
Busy(r) == IF pc[r] # "idle" THEN TRUE ELSE ops[r].pc # "idle"
MayStart(r) == ~Busy(r) /\ (IF r = 1 THEN TRUE ELSE Busy(r - 1))

\* the voter already holds an acknowledged vote on the poll
Acked(u, pid) ==
    \E q \in Reqs : pc[q] = "done" /\ resp[q].status = 200
                    /\ arg[q].user = u /\ arg[q].pid = pid

\* const poll = await Poll.findById(req.params.id), of a request by one of
\* the voters, with one of the inputs, for one of the ids pids
VoteRead(r, voters, inputs, pids) ==
    /\ MayStart(r)
    /\ \E u \in voters, oi \in inputs, pid \in pids :
         /\ arg' = [arg EXCEPT ![r] = [user |-> u, optionIndex |-> oi, pid |-> pid]]
         /\ mem' = [mem EXCEPT ![r] = [loaded |-> polls[pid], doc |-> polls[pid],
                                     pushed |-> 0, setIdx |-> 0]]
         /\ hist' = [hist EXCEPT ![r].priorAck = Acked(u, pid)]
    /\ pc' = [pc EXCEPT ![r] = "loaded"]
    /\ UNCHANGED <<others, polls, now, resp>>

VoteFindById(r) == VoteRead(r, Voters, OptionInputs, PollIds)

\* faulty variant: the duplicate-vote check of lines 175-180 is missing
VerdictNoDuplicateCheck(doc, u, oi, t) ==
    IF ~doc.exists THEN "notfound"
    ELSE IF PollEnded(doc, t) THEN "ended"
    ELSE IF JsLtZero(oi) \/ JsGeLen(oi, Len(doc.options)) THEN "invalid"
    ELSE IF ~Resolves(oi, Len(doc.options)) THEN "typeerror"
    ELSE "ok"

\* faulty variant: a poll with isActive = false is treated as not found
VerdictActiveOnly(doc, u, oi, t) ==
    IF ~doc.exists \/ ~doc.isActive THEN "notfound"
    ELSE IF PollEnded(doc, t) THEN "ended"
    ELSE IF JsLtZero(oi) \/ JsGeLen(oi, Len(doc.options)) THEN "invalid"
    ELSE IF existingVote(doc.votes, u) # 0 /\ ~doc.allowMultiple THEN "duplicate"
    ELSE IF ~Resolves(oi, Len(doc.options)) THEN "typeerror"
    ELSE "ok"

\* faulty variant: the duplicate-vote check runs before the range check
VerdictDuplicateFirst(doc, u, oi, t) ==
    IF ~doc.exists THEN "notfound"
    ELSE IF PollEnded(doc, t) THEN "ended"
    ELSE IF existingVote(doc.votes, u) # 0 /\ ~doc.allowMultiple THEN "duplicate"
    ELSE IF JsLtZero(oi) \/ JsGeLen(oi, Len(doc.options)) THEN "invalid"
    ELSE IF ~Resolves(oi, Len(doc.options)) THEN "typeerror"
    ELSE "ok"

\* which of its exits voteOnPoll takes on the loaded document: the checks of
\* lines 147-180 in their order, then the TypeError of line 194 when
\* poll.options[optionIndex] is undefined
Verdict(doc, u, oi, t) ==
    IF ~doc.exists THEN "notfound"
    ELSE IF PollEnded(doc, t) THEN "ended"
    ELSE IF JsLtZero(oi) \/ JsGeLen(oi, Len(doc.options)) THEN "invalid"
    ELSE IF existingVote(doc.votes, u) # 0 /\ ~doc.allowMultiple THEN "duplicate"
    ELSE IF ~Resolves(oi, Len(doc.options)) THEN "typeerror"
    ELSE "ok"

Rejection(v) ==
    CASE v = "notfound"  -> Fail(404, "Poll not found")
      [] v = "ended"     -> Fail(400, "Poll has ended")
      [] v = "invalid"   -> Fail(400, "Invalid option")
      [] v = "duplicate" -> Fail(400, "You have already voted on this poll")
      [] OTHER           -> Fail(500, "Failed to submit vote")

\* lines 182-194 on the loaded document: change the user's entry or push a
\* new one, then poll.options[optionIndex].votes += 1
Mutate(m, u, oi) ==
    LET doc == m.doc
        k == existingVote(doc.votes, u)
        votes == IF k # 0
                 THEN [doc.votes EXCEPT ![k].optionIndex = oi.n]
                 ELSE Append(doc.votes, [user |-> u, optionIndex |-> oi.n])
        options == [doc.options EXCEPT ![oi.n + 1].votes = @ + 1]
    IN [loaded |-> m.loaded,
        doc |-> [doc EXCEPT !.votes = votes, !.options = options],
        pushed |-> IF k = 0 THEN 1 ELSE 0,
        setIdx |-> IF k # 0 /\ doc.votes[k].optionIndex # oi.n THEN k ELSE 0]

\* the synchronous part of voteOnPoll between findById and save
VoteHandle(r) ==
    /\ pc[r] = "loaded"
    /\ LET a == arg[r]
           v == Verdict(mem[r].doc, a.user, a.optionIndex, now)
       IN IF v = "ok"
          THEN /\ mem' = [mem EXCEPT ![r] = Mutate(mem[r], a.user, a.optionIndex)]
               /\ pc' = [pc EXCEPT ![r] = "save"]
               /\ UNCHANGED <<resp, arg, hist>>
          ELSE Dropped(r, Rejection(v), "none")
    /\ UNCHANGED <<others, polls, now>>

\* the option paths the document has marked modified when it is written: an
\* option is assigned by line 194, by the reset of pre('save') when it was
\* not 0, and by the count of pre('save') when the ledger names it
Dirty(doc) ==
    {j \in 1..Len(doc.options) :
        doc.options[j].votes # 0 \/ CountFor(doc.votes, j - 1) > 0}

\* faulty variant: the save replaces the stored document by the one in memory
WriteBackWholeDocument(db, m) == preSave(m.doc)

\* the larger of two numbers, and of a set of numbers with n
Max(a, b) == IF a >= b THEN a ELSE b
MaxOf(S, n) == IF \E j \in S : j > n THEN CHOOSE j \in S : \A i \in S : i <= j ELSE n

\* the stored document after the update that poll.save() sends for m.  A
\* $set of a path below an array element the stored array does not have
\* (an update has replaced the array since the poll was loaded) creates
\* the element with that one field, after elements that are null.
WriteBack(db, m) ==
    LET after == preSave(m.doc)
        set == IF m.setIdx # 0
               THEN [k \in 1..Max(Len(db.votes), m.setIdx) |->
                       IF k = m.setIdx
                       THEN [user |-> IF k <= Len(db.votes) THEN db.votes[k].user ELSE "",
                             optionIndex |-> after.votes[k].optionIndex]
                       ELSE IF k <= Len(db.votes) THEN db.votes[k]
                       ELSE [user |-> "", optionIndex |-> -1]]
               ELSE db.votes
        push == SubSeq(after.votes, Len(after.votes) - m.pushed + 1, Len(after.votes))
    IN [db EXCEPT
          !.votes = set \o push,
          !.options = [j \in 1..MaxOf(Dirty(m.doc), Len(db.options)) |->
                          IF j \in Dirty(m.doc)
                          THEN [text |-> IF j <= Len(db.options) THEN db.options[j].text
                                         ELSE "",
                                votes |-> after.options[j].votes]
                          ELSE IF j <= Len(db.options) THEN db.options[j]
                          ELSE [text |-> "", votes |-> 0]]]

\* await poll.save(): pre('save'), then the write
VoteSave(r) ==
    /\ pc[r] = "save"
    /\ polls[arg[r].pid].exists
    /\ polls' = [polls EXCEPT ![arg[r].pid] = WriteBack(@, mem[r])]
    /\ mem' = [mem EXCEPT ![r].doc = preSave(@)]
    /\ hist' = [hist EXCEPT ![r].wrote = TRUE]
    /\ pc' = [pc EXCEPT ![r] = "populate"]
    /\ UNCHANGED <<others, now, arg, resp>>

\* await poll.populate('votes.user', ...); res.status(200).json(...)
VotePopulate(r) ==
    /\ pc[r] = "populate"
    /\ Done(r, [status |-> 200, message |-> "Vote submitted successfully",
                totalVotes |-> totalVotes(mem[r].doc)])
    /\ UNCHANGED <<others, polls, now, arg, hist>>

\* ---------------------------------------------------- the store may fail
\* each await of voteOnPoll can reject; the catch block answers 500

FindByIdError(r) ==
    /\ MayStart(r)
    /\ Dropped(r, Fail(500, "Failed to submit vote"), "findById")
    /\ UNCHANGED <<others, polls, now>>

\* another cast has changed the stored poll since r loaded it
Conflict(r) == polls[arg[r].pid] # mem[r].loaded

\* faulty variant: a failed save reloads the poll and runs the checks again
SaveErrorReloads(r) ==
    /\ pc[r] = "save"
    /\ mem' = [mem EXCEPT ![r] = [loaded |-> polls[arg[r].pid], doc |-> polls[arg[r].pid],
                                  pushed |-> 0, setIdx |-> 0]]
    /\ pc' = [pc EXCEPT ![r] = "loaded"]
    /\ UNCHANGED <<others, polls, now, arg, resp, hist>>

SaveError(r) ==
    /\ pc[r] = "save"
    /\ Dropped(r, Fail(500, "Failed to submit vote"),
               IF Conflict(r) THEN "conflict" ELSE "save")
    /\ UNCHANGED <<others, polls, now>>

PopulateError(r) ==
    /\ pc[r] = "populate"
    /\ hist' = [hist EXCEPT ![r].fault = "populate"]
    /\ Done(r, Fail(500, "Failed to submit vote"))
    /\ UNCHANGED <<others, polls, now, arg>>

\* time passes
Tick ==
    /\ now < MaxNow
    /\ now' = now + 1
    /\ UNCHANGED <<others, polls, pc, arg, mem, resp, hist>>

Next ==
    \/ Tick
    \/ \E r \in Reqs : VoteFindById(r)
    \/ \E r \in Reqs : VoteHandle(r)
    \/ \E r \in Reqs : VoteSave(r)
    \/ \E r \in Reqs : VotePopulate(r)
    \/ \E r \in Reqs : FindByIdError(r)
    \/ \E r \in Reqs : SaveError(r)
    \/ \E r \in Reqs : PopulateError(r)

Spec == Init /\ [][Next]_vars

\* ---------------------------------------------------- lifecycle requests
cast == <<pc, arg, mem, resp, hist>>

\* the response of lifecycle or read request q in slot r; what the request
\* needed only to compute it (req.user, req.body but the passcode) is
\* forgotten
Answer(r, q, status, message, view) ==
    ops' = [ops EXCEPT ![r] = [NoOp EXCEPT !.kind = q.kind, !.pc = "done",
                                           !.pid = q.pid, !.club = q.club,
                                           !.grant.passcode = q.grant.passcode,
                                           !.message = message,
                                           !.status = status, !.view = view]]

\* protect (middleware/auth.js) of POST /polls, PUT /polls/:id and
\* DELETE /polls/:id: req.user is the stored user of the token.  kinds are
\* the routes, bodies the bodies of POST /polls and patches the bodies of
\* PUT /polls/:id that are requested.
Protect(r, kinds, bodies, patches) ==
    /\ MayStart(r)
    /\ \E u \in Users, kind \in kinds :
         \E pid \in (IF kind = "create" THEN {"p2"} ELSE PollIds),
            o \in (IF kind = "create" THEN bodies ELSE {Missing}),
            b \in (IF kind = "update" THEN patches ELSE {NoPatch}) :
           ops' = [ops EXCEPT ![r] = [NoOp EXCEPT !.kind = kind, !.pc = "authed",
                                                  !.user = u, !.role = roles[u],
                                                  !.pid = pid, !.options = o,
                                                  !.patch = b]]
    /\ UNCHANGED <<users, minted, polls, now, cast>>

\* faulty variant: the route admits every admin role (requireAdmin)
requireAdmin(role) == role \in {"super_admin", "webmaster"}

\* requireWebmaster lets the request through
requireWebmaster(role) == role = "webmaster"

\* faulty variant: createPoll asks for one option only
CreateVerdictOneOption(o) ==
    IF o.kind = "missing" \/ (o.kind = "array" /\ Len(o.list) < 1) THEN "tooFew"
    ELSE IF o.kind # "array" THEN "typeerror"
    ELSE IF \E j \in 1..Len(o.list) : o.list[j] = "" THEN "validation"
    ELSE "ok"

\* which exit createPoll takes: `!options || options.length < 2`, then
\* options.map (a TypeError when options has no map), then the validation
\* of Poll.create (optionSchema: text is required)
CreateVerdict(o) ==
    IF o.kind = "missing" \/ (o.kind = "array" /\ Len(o.list) < 2) THEN "tooFew"
    ELSE IF o.kind # "array" THEN "typeerror"
    ELSE IF \E j \in 1..Len(o.list) : o.list[j] = "" THEN "validation"
    ELSE "ok"

\* req.user.club
ClubOf(u) == IF u = "u2" THEN "c2" ELSE "c1"

\* the document of Poll.create: options.map(opt => ({ text: opt })), the
\* defaults of pollSchema and of the destructuring of req.body, createdBy:
\* req.user.id, club: req.user.club
CreatedPoll(u, list) ==
    [exists |-> TRUE,
     options |-> [j \in 1..Len(list) |-> [text |-> list[j], votes |-> 0]],
     votes |-> <<>>,
     endDate |-> 1,
     allowMultiple |-> FALSE,
     createdBy |-> u, isActive |-> TRUE,
     isPublic |-> TRUE, isPinned |-> FALSE, showResults |-> TRUE,
     club |-> ClubOf(u), district |-> "d1"]

\* the _id of a new document is one the store has never generated
FreshIds(db, issued) == PollIds \ issued

\* POST /polls: requireWebmaster, then createPoll
CreatePoll(r) ==
    /\ ops[r].pc = "authed" /\ ops[r].kind = "create"
    /\ LET q == ops[r]
           v == IF requireWebmaster(q.role) THEN CreateVerdict(q.options)
                ELSE "forbidden"
           poll == CreatedPoll(q.user, q.options.list)
       IN CASE v = "ok" ->
                 \E id \in FreshIds(polls, minted) :
                    /\ polls' = [polls EXCEPT ![id] = poll]
                    /\ minted' = minted \cup {id}
                    /\ Answer(r, [q EXCEPT !.pid = id], 201, "Poll created successfully",
                              [NoView EXCEPT !.doc = poll])
            [] v = "forbidden" ->
                 /\ Answer(r, q, 403, "Webmaster access required", NoView)
                 /\ UNCHANGED <<polls, minted>>
            [] v = "tooFew" ->
                 /\ Answer(r, q, 400, "At least two options are required", NoView)
                 /\ UNCHANGED <<polls, minted>>
            [] OTHER ->
                 /\ Answer(r, q, 500, "Failed to create poll", NoView)
                 /\ UNCHANGED <<polls, minted>>
    /\ UNCHANGED <<users, now, cast>>

\* const isOwner = resource.author && resource.author.toString() ===
\* req.user.id: a path the document does not have reads as undefined
isOwner(resource, u) ==
    IF "author" \in DOMAIN resource THEN resource.author = u ELSE FALSE

\* faulty variant: every admin role passes the ownership check
isAdmin(role) == role \in {"super_admin", "webmaster"}

\* const isWebmaster = req.user.role === 'webmaster'
isWebmaster(role) == role = "webmaster"

\* requireOwnershipOrWebmaster('Poll') of PUT and DELETE /polls/:id
OwnershipCheck(r) ==
    /\ ops[r].pc = "authed" /\ ops[r].kind \in {"update", "delete"}
    /\ LET q == ops[r]
           resource == polls[q.pid]
       IN IF ~resource.exists
          THEN Answer(r, q, 404, "Resource not found", NoView)
          ELSE IF ~isOwner(resource, q.user) /\ ~isWebmaster(q.role)
          THEN Answer(r, q, 403, "Not authorized to access this resource", NoView)
          ELSE \* next(): the route handler does not read req.user
               ops' = [ops EXCEPT ![r].pc = "checked", ![r].role = "",
                                  ![r].user = "u1"]
    /\ UNCHANGED <<users, minted, polls, now, cast>>

\* the stored document after the $set of req.body: each field of the body
\* replaces the stored one (options are cast by optionSchema, votes: 0);
\* pollSchema.pre('save') is no hook of findByIdAndUpdate
Apply(doc, patch) ==
    [doc EXCEPT
       !.isActive = IF "isActive" \in patch.has THEN patch.isActive ELSE @,
       !.allowMultiple = IF "allowMultiple" \in patch.has THEN patch.allowMultiple ELSE @,
       !.votes = IF "votes" \in patch.has THEN patch.votes ELSE @,
       !.options = IF "options" \in patch.has
                   THEN [j \in 1..Len(patch.options) |->
                            [text |-> patch.options[j], votes |-> 0]]
                   ELSE @]

\* Poll.findByIdAndUpdate(req.params.id, req.body, { new: true, ... }): null,
\* and nothing written, when the id has no document; the response is the
\* same in both cases
UpdateWrite(r) ==
    /\ ops[r].pc = "checked" /\ ops[r].kind = "update"
    /\ LET q == ops[r]
           after == IF polls[q.pid].exists THEN Apply(polls[q.pid], q.patch)
                    ELSE NoPoll
       IN /\ polls' = [polls EXCEPT ![q.pid] = after]
          /\ Answer(r, q, 200, "Poll updated successfully",
                    [NoView EXCEPT !.doc = after])
    /\ UNCHANGED <<users, minted, now, cast>>

\* faulty variant: the delete leaves the document and marks it inactive
SoftDelete(doc) == [doc EXCEPT !.isActive = FALSE]

\* what findByIdAndDelete leaves of the stored document
Remove(doc) == NoPoll

\* Poll.findByIdAndDelete(req.params.id), then the response
DeleteWrite(r) ==
    /\ ops[r].pc = "checked" /\ ops[r].kind = "delete"
    /\ polls' = [polls EXCEPT ![ops[r].pid] = Remove(@)]
    /\ Answer(r, ops[r], 200, "Poll deleted successfully", NoView)
    /\ UNCHANGED <<users, minted, now, cast>>

\* ------------------------------------------------------- role updates
\* requireSuperAdmin lets the request through
requireSuperAdmin(role) == role = "super_admin"

\* the validation of updateUserRole (lines 233-253): newRole, the passcode
\* and its length, then passcode !== process.env.SUPER_ADMIN_PASSCODE ||
\* passcode !== '1234'
RoleVerdict(newRole, passcode, e) ==
    IF newRole = "" THEN "norole"
    ELSE IF passcode = "" THEN "nopasscode"
    ELSE IF PasscodeLen(passcode) # 4 THEN "nopasscode"
    ELSE IF passcode # e THEN "badpasscode"
    ELSE IF passcode # "1234" THEN "badpasscode"
    ELSE "ok"

\* PUT /super-admin/users/:id/role up to the first await of updateUserRole:
\* protect loads req.user, requireSuperAdmin, the validation.  callers,
\* targets, newRoles and passcodes are what the requests are drawn from.
RoleRequest(r, callers, targets, newRoles, passcodes) ==
    /\ MayStart(r)
    /\ \E caller \in callers, target \in targets, newRole \in newRoles,
          passcode \in passcodes :
         LET q == [NoOp EXCEPT !.kind = "role", !.grant.passcode = passcode]
             v == RoleVerdict(newRole, passcode, env)
         IN IF ~requireSuperAdmin(roles[caller])
            THEN Answer(r, q, 403, "Super Admin access required.", NoView)
            ELSE IF v = "norole"
            THEN Answer(r, q, 400, "New role is required", NoView)
            ELSE IF v = "nopasscode"
            THEN Answer(r, q, 400, "Valid 4-digit passcode is required", NoView)
            ELSE IF v = "badpasscode"
            THEN Answer(r, q, 401, "Invalid passcode", NoView)
            ELSE ops' = [ops EXCEPT ![r] =
                            [q EXCEPT !.pc = "authed", !.user = caller,
                                      !.grant.target = target,
                                      !.grant.newRole = newRole]]
    /\ UNCHANGED <<users, minted, polls, now, cast>>

\* const user = await User.findById(id), the guard of the super admins
\* (the ids are compared as strings), previousRole = user.role
UpdateUserRole(r) ==
    /\ ops[r].pc = "authed" /\ ops[r].kind = "role"
    /\ LET q == ops[r]
           target == q.grant.target
       IN IF target \notin Users
          THEN Answer(r, q, 404, "User not found", NoView)
          ELSE IF roles[target] = "super_admin" /\ q.user # target
          THEN Answer(r, q, 403, "Cannot modify another Super Admin", NoView)
          ELSE ops' = [ops EXCEPT ![r].pc = "checked",
                                  ![r].grant.previousRole = roles[target]]
    /\ UNCHANGED <<users, minted, polls, now, cast>>

\* the entry that addRoleHistory pushes
HistoryEntry(previousRole, newRole, assignedBy) ==
    [previousRole |-> previousRole, newRole |-> newRole, assignedBy |-> assignedBy]

\* user.role = newRole; await user.addRoleHistory(...): the push and
\* this.save(), which writes the role and the pushed entry and rejects a
\* role that is not in the enum; await user.save() has nothing left to
\* write; then the response
AddRoleHistory(r) ==
    /\ ops[r].pc = "checked" /\ ops[r].kind = "role"
    /\ LET q == ops[r]
           g == q.grant
       IN IF g.newRole \notin Roles
          THEN /\ Answer(r, q, 500, "Failed to update user role", NoView)
               /\ UNCHANGED <<roles, roleHistory>>
          ELSE /\ roles' = [roles EXCEPT ![g.target] = g.newRole]
               /\ roleHistory' = [roleHistory EXCEPT ![g.target] =
                                    Append(@, HistoryEntry(g.previousRole, g.newRole, q.user))]
               /\ Answer(r, q, 200, "Role updated successfully", NoView)
    /\ UNCHANGED <<env, minted, polls, now, cast>>

\* ----------------------------------------------------------------- reads
\* getPoll: the document of the id, or 404
GetPoll(r) ==
    /\ MayStart(r)
    /\ \E pid \in PollIds :
         LET q == [NoOp EXCEPT !.kind = "get", !.pid = pid]
         IN IF polls[pid].exists
            THEN Answer(r, q, 200, "", [NoView EXCEPT !.doc = polls[pid]])
            ELSE Answer(r, q, 404, "Poll not found", NoView)
    /\ UNCHANGED <<users, minted, polls, now, cast>>

\* rational numbers, as numerator and denominator
Div(a, b)   == [num |-> a, den |-> b]
Times(q, n) == [num |-> q.num * n, den |-> q.den]
Zero        == [num |-> 0, den |-> 1]

\* faulty variant: the share is computed for a poll without votes as well
PercentageUnguarded(votes, total) == Times(Div(votes, total), 100)

\* poll.totalVotes > 0 ? (option.votes / poll.totalVotes) * 100 : 0
Percentage(votes, total) ==
    IF total > 0 THEN Times(Div(votes, total), 100) ELSE Zero

\* pollSchema.virtual('hasEnded'): new Date() > this.endDate
hasEnded(doc, t) == t > doc.endDate

\* the body of the response of getPollResults
Results(doc, t) ==
    [NoView EXCEPT
       !.totalVotes = totalVotes(doc),
       !.results = [j \in 1..Len(doc.options) |->
                      [text |-> doc.options[j].text,
                       votes |-> doc.options[j].votes,
                       percentage |-> Percentage(doc.options[j].votes, totalVotes(doc))]],
       !.hasEnded = doc.endDate < t]

GetPollResults(r) ==
    /\ MayStart(r)
    /\ \E pid \in PollIds :
         LET q == [NoOp EXCEPT !.kind = "results", !.pid = pid]
         IN IF polls[pid].exists
            THEN Answer(r, q, 200, "", Results(polls[pid], now))
            ELSE Answer(r, q, 404, "Poll not found", NoView)
    /\ UNCHANGED <<users, minted, polls, now, cast>>

\* req.query.status of getPolls: 'active' (the default), 'ended', or another
\* value, which adds no condition on endDate
Statuses == {"active", "ended", "all"}

\* faulty variant: a poll is listed as active only before its endDate
MatchesBeforeEndDate(doc, status, t) ==
    /\ doc.isActive
    /\ CASE status = "active" -> doc.endDate > t
         [] status = "ended"  -> doc.endDate < t
         [] OTHER             -> TRUE

\* the filter of getPolls: { isActive: true }, endDate $gte now for
\* 'active', endDate $lt now for 'ended'
Matches(doc, status, t) ==
    /\ doc.isActive
    /\ CASE status = "active" -> doc.endDate >= t
         [] status = "ended"  -> doc.endDate < t
         [] OTHER             -> TRUE

\* req.query.club of getPolls: none, the club of a poll, another club
Scopes == {"", "c1", "c2"}

\* if (club) filter.club = club
InScope(doc, club) == IF club = "" THEN TRUE ELSE doc.club = club

\* getPolls of a request whose req.query.club is one of scopes; the
\* request's status is kept in `message`
ListPolls(r, scopes) ==
    /\ MayStart(r)
    /\ \E status \in Statuses, club \in scopes :
         Answer(r, [NoOp EXCEPT !.kind = "list", !.club = club], 200, status,
                [NoView EXCEPT !.listed =
                    {p \in PollIds : /\ polls[p].exists
                                     /\ Matches(polls[p], status, now)
                                     /\ InScope(polls[p], club)}])
    /\ UNCHANGED <<users, minted, polls, now, cast>>

GetPolls(r) == ListPolls(r, Scopes)

\* GET /polls/active/all: the filter is endDate $gte now, isActive: true,
\* isPublic: true
GetActiveAll(r) ==
    /\ MayStart(r)
    /\ Answer(r, [NoOp EXCEPT !.kind = "active"], 200, "",
              [NoView EXCEPT !.listed =
                  {p \in PollIds : /\ polls[p].exists
                                   /\ polls[p].endDate >= now
                                   /\ polls[p].isActive /\ polls[p].isPublic}])
    /\ UNCHANGED <<users, minted, polls, now, cast>>

\* faulty variant: the save of a cast whose poll has been deleted stores the
\* document the cast holds in memory
VoteSaveUpserts(r) ==
    /\ pc[r] = "save"
    /\ ~polls[arg[r].pid].exists
    /\ polls' = [polls EXCEPT ![arg[r].pid] = preSave(mem[r].doc)]
    /\ mem' = [mem EXCEPT ![r].doc = preSave(@)]
    /\ hist' = [hist EXCEPT ![r].wrote = TRUE]
    /\ pc' = [pc EXCEPT ![r] = "populate"]
    /\ UNCHANGED <<others, now, arg, resp>>

\* await poll.save() of a cast whose poll has been deleted since it was
\* loaded: the update matches no document, save rejects, the catch block
\* answers 500
VoteSaveMissing(r) ==
    /\ pc[r] = "save"
    /\ ~polls[arg[r].pid].exists
    /\ Dropped(r, Fail(500, "Failed to submit vote"), "save")
    /\ UNCHANGED <<others, polls, now>>

\* POST /polls alone, with every body
CreateNext ==
    \/ \E r \in Reqs : Protect(r, {"create"}, CreateBodies, {NoPatch})
    \/ \E r \in Reqs : CreatePoll(r)

CreateSpec == Init /\ [][CreateNext]_vars

\* ------------------------------------------- stored polls of any shape
\* a stored poll as casts, updates and time can have left it: a ledger of up
\* to MaxLedger entries, of which optionIndex 2 names no option, counters
\* that need not match the ledger, any endDate, active or not
LedgerEntries == {[user |-> "u1", optionIndex |-> i] : i \in 0..2}
Ledgers == UNION {[1..n -> LedgerEntries] : n \in 0..MaxLedger}

StoredPoll(ledger, a, b, e, active) ==
    [NewPoll(FALSE) EXCEPT !.votes = ledger, !.options[1].votes = a,
                           !.options[2].votes = b, !.endDate = e,
                           !.isActive = active]

\* pollSchema.pre('save') on the stored poll p, and the write of its counts
PreSave(p) ==
    /\ polls[p].exists
    /\ polls' = [polls EXCEPT ![p] = preSave(@)]
    /\ UNCHANGED <<others, now, cast>>

\* the recount and the results, over every ledger and every counters
TallyInit ==
    /\ \E ledger \in Ledgers, a \in 0..MaxLedger, b \in 0..MaxLedger :
         polls = [p \in PollIds |-> IF p = "p1" THEN StoredPoll(ledger, a, b, 1, TRUE)
                                    ELSE NoPoll]
    /\ Quiet

TallyNext ==
    \/ \E p \in PollIds : PreSave(p)
    \/ \E r \in Reqs : GetPollResults(r)

TallySpec == TallyInit /\ [][TallyNext]_vars

\* the listing (without club), the results and the casts (of option 0 and
\* of an option that does not exist) as time passes, over every endDate
ViewInit ==
    /\ \E e \in 0..MaxNow, active \in BOOLEAN :
         polls = [p \in PollIds |-> IF p = "p1" THEN StoredPoll(<<>>, 0, 0, e, active)
                                    ELSE NoPoll]
    /\ Quiet

ViewNext ==
    \/ Tick
    \/ \E r \in Reqs : ListPolls(r, {""})
    \/ \E r \in Reqs : GetPollResults(r)
    \/ \E r \in Reqs : VoteRead(r, Voters, {IntIdx(0), IntIdx(2)}, {"p1"})
    \/ \E r \in Reqs : VoteHandle(r)
    \/ \E r \in Reqs : VoteSave(r)
    \/ \E r \in Reqs : VotePopulate(r)

ViewSpec == ViewInit /\ [][ViewNext]_vars

\* the listings with every status and club as time passes, over every
\* endDate, isActive and isPublic of the poll of club c1
ListInit ==
    /\ \E e \in 0..MaxNow, active \in BOOLEAN, public \in BOOLEAN :
         polls = [p \in PollIds |->
                     IF p = "p1"
                     THEN [StoredPoll(<<>>, 0, 0, e, active) EXCEPT !.isPublic = public]
                     ELSE NoPoll]
    /\ Quiet

ListNext ==
    \/ Tick
    \/ \E r \in Reqs : GetPolls(r)
    \/ \E r \in Reqs : GetActiveAll(r)

ListSpec == ListInit /\ [][ListNext]_vars

\* the role updates, of every caller and every passcode, over every
\* configured passcode
RoleInit ==
    /\ polls = [p \in PollIds |-> IF p = "p1" THEN NewPoll(FALSE) ELSE NoPoll]
    /\ \E e \in Envs : QuietWith(e)

RoleNext ==
    \/ \E r \in Reqs : RoleRequest(r, Users, {"u2", "u3", "u0"},
                                 {"", "webmaster", "super_admin", "guest"}, Passcodes)
    \/ \E r \in Reqs : UpdateUserRole(r)
    \/ \E r \in Reqs : AddRoleHistory(r)

RoleSpec == RoleInit /\ [][RoleNext]_vars

\* the casts and PUT /polls/:id with every body
EditNext ==
    \/ \E r \in Reqs : Protect(r, {"update"}, {Missing}, UpdateBodies)
    \/ \E r \in Reqs : OwnershipCheck(r)
    \/ \E r \in Reqs : UpdateWrite(r)
    \/ \E r \in Reqs : VoteRead(r, Voters, {IntIdx(0), IntIdx(1)}, {"p1"})
    \/ \E r \in Reqs : VoteHandle(r)
    \/ \E r \in Reqs : VoteSave(r)
    \/ \E r \in Reqs : VotePopulate(r)

EditSpec == Init /\ [][EditNext]_vars

\* every route, POST /polls with a body that createPoll accepts, PUT with a
\* body that sets isActive, casts of option 0
LifeNext ==
    \/ \E r \in Reqs : Protect(r, {"create", "update", "delete"}, {Array(<<"Red", "Blue">>)},
                             {SetIsActive(FALSE)})
    \/ \E r \in Reqs : CreatePoll(r)
    \/ \E r \in Reqs : OwnershipCheck(r)
    \/ \E r \in Reqs : UpdateWrite(r)
    \/ \E r \in Reqs : DeleteWrite(r)
    \/ \E r \in Reqs : RoleRequest(r, {"u3"}, {"u1"}, {"leo_member"}, {"1234"})
    \/ \E r \in Reqs : UpdateUserRole(r)
    \/ \E r \in Reqs : AddRoleHistory(r)
    \/ \E r \in Reqs : GetPoll(r)
    \/ \E r \in Reqs : GetPollResults(r)
    \/ \E r \in Reqs : ListPolls(r, {""})
    \/ \E r \in Reqs : VoteRead(r, Voters, {IntIdx(0)}, PollIds)
    \/ \E r \in Reqs : VoteHandle(r)
    \/ \E r \in Reqs : VoteSave(r)
    \/ \E r \in Reqs : VotePopulate(r)
    \/ \E r \in Reqs : VoteSaveMissing(r)

LifeSpec == Init /\ [][LifeNext]_vars

\* ------------------------------------------------------------ properties
Stored(r) == polls[arg[r].pid]

\* the step in which request r leaves the synchronous part of voteOnPoll
Handled(r) == pc[r] = "loaded" /\ pc'[r] # "loaded"

\* every option's counter equals the number of ledger entries that name it
TallyMatches(doc) ==
    \A j \in 1..Len(doc.options) : doc.options[j].votes = CountFor(doc.votes, j - 1)

HasEntry(doc, u, i) ==
    \E k \in 1..Len(doc.votes) : doc.votes[k].user = u /\ doc.votes[k].optionIndex = i

\* options[1].votes + ... + options[n].votes
RECURSIVE SumVotes(_, _)
SumVotes(options, n) ==
    IF n = 0 THEN 0 ELSE options[n].votes + SumVotes(options, n - 1)

EntriesOf(doc, u) == {k \in 1..Len(doc.votes) : doc.votes[k].user = u}

\* C1: in every interleaving of casts, a stored poll with allowMultiple = false
\* never holds two ledger entries of one voter.
C1_OneEntryPerVoter ==
    \A p \in PollIds :
        (polls[p].exists /\ ~polls[p].allowMultiple) =>
            \A u \in Voters : Cardinality(EntriesOf(polls[p], u)) <= 1

\* C2: once a cast on a poll has returned success, every option's stored
\* counter equals the number of ledger entries naming it, and the counters
\* add up to the ledger length.
C2_TallyAfterSuccess ==
    \A r \in Reqs :
        (pc[r] = "done" /\ resp[r].status = 200) =>
            /\ TallyMatches(Stored(r))
            /\ SumVotes(Stored(r).options, Len(Stored(r).options)) = Len(Stored(r).votes)

\* C5: a cast on a stored poll is answered 400 'Poll has ended' exactly when
\* endDate is strictly earlier than the time of the check, whoever votes and
\* whatever the optionIndex; a cast so rejected ends there and writes nothing.
C5_EndedGate ==
    [][\A r \in Reqs :
          (Handled(r) /\ mem[r].doc.exists) =>
              /\ (resp'[r] = Fail(400, "Poll has ended")) <=> (mem[r].doc.endDate < now)
              /\ (mem[r].doc.endDate < now) => (pc'[r] = "done" /\ polls' = polls)
      ]_vars

\* a cast has been rejected as ended on a poll that took a vote before
C5_Witness ==
    /\ \E r \in Reqs : resp[r] = Fail(400, "Poll has ended")
    /\ polls["p1"].votes # <<>>

\* C3 as stated: on a poll with allowMultiple = false, every cast of a voter
\* who already holds an acknowledged vote is answered 400 'You have already
\* voted on this poll', for any optionIndex, and writes nothing.
C3_AlwaysDuplicateError ==
    [][\A r \in Reqs :
          (Handled(r) /\ hist[r].priorAck /\ ~Stored(r).allowMultiple) =>
              /\ resp'[r] = Fail(400, "You have already voted on this poll")
              /\ polls' = polls
      ]_vars

\* C3 as amended: such a cast is always rejected with a 400 and writes nothing;
\* the error is 'Poll has ended' when the poll has ended, 'Invalid option'
\* when optionIndex is below 0 or not below options.length, and the
\* duplicate-vote error in every other case.
C3_SubsequentCastRejected ==
    [][\A r \in Reqs :
          (Handled(r) /\ hist[r].priorAck /\ ~Stored(r).allowMultiple) =>
              LET oi == arg[r].optionIndex
                  outOfRange == JsLtZero(oi) \/ JsGeLen(oi, Len(Stored(r).options))
              IN /\ pc'[r] = "done"
                 /\ polls' = polls
                 /\ resp'[r] =
                       IF Stored(r).endDate < now THEN Fail(400, "Poll has ended")
                       ELSE IF outOfRange THEN Fail(400, "Invalid option")
                       ELSE Fail(400, "You have already voted on this poll")
      ]_vars

\* a voter with an acknowledged vote has cast again and got the duplicate error
C3_Witness ==
    \E r \in Reqs :
        /\ pc[r] = "done" /\ hist[r].priorAck
        /\ resp[r] = Fail(400, "You have already voted on this poll")
        /\ ~polls["p1"].allowMultiple

\* C4: on a poll with allowMultiple = true, the save of a cast for option b by
\* a voter whose entry names another option a leaves the ledger length and the
\* voter's single entry, takes exactly 1 from options[a].votes, adds exactly 1
\* to options[b].votes and leaves every other counter.
C4_VoteChangeInPlace ==
    [][\A r \in Reqs :
          LET db == Stored(r)
              k == existingVote(db.votes, arg[r].user)
              b == arg[r].optionIndex.n
          IN (/\ pc[r] = "save" /\ pc'[r] = "populate"
              /\ db.allowMultiple /\ k # 0
              /\ db.votes[k].optionIndex # b) =>
                 LET a == db.votes[k].optionIndex
                     after == polls'[arg[r].pid]
                 IN /\ Len(after.votes) = Len(db.votes)
                    /\ Cardinality(EntriesOf(after, arg[r].user)) = 1
                    /\ after.votes[k].optionIndex = b
                    /\ \A j \in 1..Len(db.options) :
                          after.options[j].votes =
                              db.options[j].votes
                                + (IF j = b + 1 THEN 1 ELSE 0)
                                - (IF j = a + 1 THEN 1 ELSE 0)
      ]_vars

\* C6: a cast on a stored poll that has not ended, with an optionIndex that is
\* not an integer i with 0 <= i < options.length, is answered 400 'Invalid
\* option' and writes nothing.
C6_InvalidOptionRejected ==
    [][\A r \in Reqs :
          (/\ Handled(r) /\ mem[r].doc.exists
           /\ ~(mem[r].doc.endDate < now)
           /\ ~Resolves(arg[r].optionIndex, Len(mem[r].doc.options))) =>
              /\ resp'[r] = Fail(400, "Invalid option")
              /\ polls' = polls
      ]_vars

\* the casts whose save has been applied
Writers == {r \in Reqs : hist[r].wrote}

\* C7: on a single-vote poll, casts of different voters that are saved in any
\* interleaving are all kept: each voter's entry is in the stored ledger with
\* the optionIndex submitted, the ledger of a poll that two such casts wrote
\* has length 2, and each cast, unless the store fails it, returns success
\* with the ledger length it saw.
C7_BothVotesKept ==
    \A r1, r2 \in Writers :
        (/\ r1 # r2
         /\ arg[r1].user # arg[r2].user
         /\ arg[r1].pid = arg[r2].pid
         /\ ~Stored(r1).allowMultiple) =>
            /\ HasEntry(Stored(r1), arg[r1].user, arg[r1].optionIndex.n)
            /\ HasEntry(Stored(r1), arg[r2].user, arg[r2].optionIndex.n)
            /\ (Writers = {r1, r2}) => Len(Stored(r1).votes) = 2
            /\ (pc[r1] = "done" /\ hist[r1].fault = "none") => resp[r1].status = 200

\* two voters have read the empty ledger of a single-vote poll, both have
\* saved, and both have been answered
C7_Witness ==
    \E r1, r2 \in Reqs :
        /\ r1 # r2 /\ arg[r1].user # arg[r2].user
        /\ pc[r1] = "done" /\ pc[r2] = "done"
        /\ resp[r1].status = 200 /\ resp[r1].totalVotes = 1
        /\ resp[r2].status = 200 /\ resp[r2].totalVotes = 1
        /\ ~polls["p1"].allowMultiple
        /\ Len(polls["p1"].votes) = 2

\* C8: once no cast is in flight, the stored poll is what the casts would have
\* left one at a time: every voter whose cast returned success has an entry
\* (on a single-vote poll, with the optionIndex submitted), and every
\* option's counter equals the number of ledger entries naming it.
C8_AsIfOneAtATime ==
    (\A r \in Reqs : pc[r] \in {"idle", "done"}) =>
        /\ \A r \in Reqs :
              (pc[r] = "done" /\ resp[r].status = 200) =>
                  /\ EntriesOf(Stored(r), arg[r].user) # {}
                  /\ ~Stored(r).allowMultiple =>
                        HasEntry(Stored(r), arg[r].user, arg[r].optionIndex.n)
        /\ \A p \in PollIds : polls[p].exists => TallyMatches(polls[p])

\* C9 as stated: a save that fails after another cast has changed the poll
\* does not end the request with an error; the poll is loaded again first.
C9_ConflictIsRetried ==
    [][\A r \in Reqs :
          (pc[r] = "save" /\ Conflict(r) /\ pc'[r] # "save") =>
              (pc'[r] = "populate" \/ pc'[r] = "loaded")
      ]_vars

\* C9 as amended: voteOnPoll never loads the poll a second time; a save that
\* fails, also after another cast has changed the poll, ends the request at
\* once with 500 'Failed to submit vote' and writes nothing.
C9_SaveFailureSurfaces ==
    [][\A r \in Reqs :
          /\ (pc[r] # "idle") => (pc'[r] # "loaded" \/ pc[r] = "loaded")
          /\ (pc[r] = "save" /\ pc'[r] # "save" /\ pc'[r] # "populate") =>
                 /\ pc'[r] = "done"
                 /\ resp'[r] = Fail(500, "Failed to submit vote")
                 /\ polls' = polls
      ]_vars

\* a save has failed after another cast had changed the poll
C9_Witness ==
    \E r \in Reqs :
        /\ pc[r] = "done" /\ hist[r].fault = "conflict"
        /\ resp[r] = Fail(500, "Failed to submit vote")

\* C10: a cast that does not return success has written nothing to the stored
\* poll.
C10_FailureWritesNothing ==
    \A r \in Reqs :
        (pc[r] = "done" /\ resp[r].status # 200) => ~hist[r].wrote

\* --------------------------------------------------- lifecycle properties
\* the step in which the lifecycle request of slot r, of kind k, is answered
Answered(r, k) == ops[r].kind = k /\ ops[r].pc # "done" /\ ops'[r].pc = "done"

\* req.body.options is missing or has fewer than two entries
TooFew(o) == o.kind = "missing" \/ (o.kind = "array" /\ Len(o.list) < 2)

\* the options the poll rules allow: 2 to 10 texts, each of 1 to 200
\* characters, no two equal ignoring case
ValidOptions(list) ==
    /\ Len(list) >= 2 /\ Len(list) <= 10
    /\ \A j \in 1..Len(list) : TextLen(list[j]) >= 1 /\ TextLen(list[j]) <= 200
    /\ \A i, j \in 1..Len(list) : i # j => Lower(list[i]) # Lower(list[j])

OptionTexts(doc) == [j \in 1..Len(doc.options) |-> doc.options[j].text]

\* C11: a create request whose options are missing or fewer than two is
\* rejected and stores nothing: createPoll answers it 400 'At least two
\* options are required' (a caller whom requireWebmaster stops has got 403
\* before), and the stored polls are unchanged.
C11_TooFewOptionsRejected ==
    [][\A r \in Reqs :
         (Answered(r, "create") /\ TooFew(ops[r].options)) =>
            /\ polls' = polls
            /\ ops'[r].status = (IF ops[r].role = "webmaster" THEN 400 ELSE 403)
            /\ ops[r].role = "webmaster" =>
                  ops'[r].message = "At least two options are required"]_vars

\* C11 happens: createPoll has answered 400 to a request with too few
\* options, and the store holds the one poll it held before
C11_Witness ==
    \E r \in Reqs :
        /\ ops[r].kind = "create" /\ ops[r].pc = "done" /\ ops[r].status = 400
        /\ ~polls["p2"].exists

\* C12: every stored poll has between 2 and 10 options, each text non-empty
\* and of at most 200 characters, no two texts equal ignoring case.
C12_StoredOptionsValid ==
    \A p \in PollIds : polls[p].exists => ValidOptions(OptionTexts(polls[p]))

\* C13: POST /polls by a caller whose role is not webmaster is answered 403
\* and stores nothing; a webmaster's request with valid options is answered
\* 201 and stores exactly one new poll, whose createdBy is the caller.
C13_OnlyWebmasterCreates ==
    [][\A r \in Reqs :
         Answered(r, "create") =>
            /\ ops[r].role # "webmaster" =>
                  /\ ops'[r].status = 403
                  /\ ops'[r].message = "Webmaster access required"
                  /\ polls' = polls
            /\ polls' # polls => ops[r].role = "webmaster"
            /\ (ops[r].role = "webmaster" /\ ValidOptions(ops[r].options.list)) =>
                  /\ ops'[r].status = 201
                  /\ \E id \in PollIds :
                        /\ ~polls[id].exists /\ polls'[id].exists
                        /\ polls'[id].createdBy = ops[r].user
                        /\ \A p \in PollIds \ {id} : polls'[p] = polls[p]]_vars

\* C13 happens: a caller who is no webmaster has been answered 403 and a
\* webmaster 201, and the poll of the webmaster is stored
C13_Witness ==
    \E r, q \in Reqs :
        /\ ops[r].kind = "create" /\ ops[r].status = 403
        /\ ops[q].kind = "create" /\ ops[q].status = 201
        /\ polls[ops[q].pid].exists /\ polls[ops[q].pid].createdBy = "u1"

\* the step in which requireOwnershipOrWebmaster decides on request r
Checked(r) ==
    /\ ops[r].pc = "authed" /\ ops[r].kind \in {"update", "delete"}
    /\ ops'[r].pc # "authed"

\* C14: an update or delete of an existing poll by a caller who is neither
\* its creator nor a webmaster (req.user.role, as protect loaded it) is
\* answered 403 and leaves the stored polls unchanged.
C14_OthersRefused ==
    [][\A r \in Reqs :
         (/\ Checked(r)
          /\ polls[ops[r].pid].exists
          /\ ops[r].user # polls[ops[r].pid].createdBy
          /\ ops[r].role # "webmaster") =>
            /\ ops'[r].pc = "done" /\ ops'[r].status = 403
            /\ polls' = polls]_vars

\* C14 happens: an update or delete has been answered 403 and its poll is
\* stored
C14_Witness ==
    \E r \in Reqs :
        /\ ops[r].kind \in {"update", "delete"} /\ ops[r].status = 403
        /\ polls[ops[r].pid].exists

\* C15: the creator of a poll passes the ownership check of update and
\* delete whatever the creator's role is.
C15_CreatorAllowed ==
    [][\A r \in Reqs :
         (/\ Checked(r)
          /\ polls[ops[r].pid].exists
          /\ ops[r].user = polls[ops[r].pid].createdBy) =>
            ops'[r].pc = "checked"]_vars

\* a delete of poll p has been answered 200
Deleted(p) ==
    \E q \in Reqs : ops[q].kind = "delete" /\ ops[q].status = 200 /\ ops[q].pid = p

\* C16: once a delete of a poll has been answered 200 the id has no document
\* ever again; every get and results of the id is answered 404 without a
\* body, no listing holds the id, every ownership check of an update or
\* delete of the id answers 404, and every cast that reads the id finds no
\* poll and is answered 404.
C16_HardDelete ==
    [][/\ \A p \in PollIds : Deleted(p)' => ~polls'[p].exists
       /\ \A r \in Reqs :
            /\ (ops[r].pc = "idle" /\ ops'[r].kind \in {"get", "results"}
                    /\ Deleted(ops'[r].pid)) =>
                 (ops'[r].status = 404 /\ ops'[r].view = NoView)
            /\ (ops[r].pc = "idle" /\ ops'[r].kind = "list") =>
                 \A p \in ops'[r].view.listed : ~Deleted(p)
            /\ (Checked(r) /\ Deleted(ops[r].pid)) =>
                 (ops'[r].pc = "done" /\ ops'[r].status = 404)
            /\ (pc[r] = "idle" /\ pc'[r] = "loaded" /\ Deleted(arg'[r].pid)) =>
                 ~mem'[r].loaded.exists
            /\ (Handled(r) /\ ~mem[r].loaded.exists) =>
                 (resp'[r].status = 404 /\ polls' = polls)]_vars

\* C16 happens: a delete has been answered 200 and a later get of the same
\* id 404
C16_Witness ==
    \E r, q \in Reqs :
        /\ r < q
        /\ ops[r].kind = "delete" /\ ops[r].status = 200
        /\ ops[q].kind = "get" /\ ops[q].pid = ops[r].pid /\ ops[q].status = 404

\* C19: an update or delete whose write finds no poll is answered 404.
C19_MissingPollIs404 ==
    [][\A r \in Reqs :
         ((Answered(r, "update") \/ Answered(r, "delete"))
              /\ ~polls[ops[r].pid].exists) =>
            ops'[r].status = 404]_vars

\* -------------------------------------------------- results, time, tally
\* the step in which a read of kind k is answered in slot r
Read(r, k) == ops[r].pc = "idle" /\ ops'[r].kind = k

\* the rational q is the integer 0
IsZero(q) == q.num = 0 /\ q.den # 0

\* C17: getPollResults reports totalVotes equal to the ledger length and,
\* for every option, a percentage that is 0 when totalVotes is 0 and
\* otherwise satisfies percentage * totalVotes = 100 * options[i].votes.
C17_PercentageLaw ==
    [][\A r \in Reqs :
         (Read(r, "results") /\ ops'[r].status = 200) =>
            LET doc == polls[ops'[r].pid]
                v == ops'[r].view
            IN /\ v.totalVotes = Len(doc.votes)
               /\ Len(v.results) = Len(doc.options)
               /\ \A j \in 1..Len(v.results) :
                    LET q == v.results[j].percentage
                    IN /\ v.results[j].votes = doc.options[j].votes
                       /\ v.totalVotes = 0 => IsZero(q)
                       /\ v.totalVotes > 0 =>
                            /\ q.den # 0
                            /\ q.num * v.totalVotes = 100 * doc.options[j].votes * q.den]_vars

\* C17 happens: results were reported for a poll with two votes, one of
\* them for the first option, whose percentage is 100 * 1 / 2
C17_Witness ==
    \E r \in Reqs :
        /\ ops[r].kind = "results" /\ ops[r].status = 200
        /\ ops[r].view.totalVotes = 2
        /\ ops[r].view.results[1].votes = 1
        /\ ops[r].view.results[1].percentage = [num |-> 100, den |-> 2]

\* C18: at every instant, for every stored poll, hasEnded (the virtual, and
\* the flag of the results) is false exactly when the endDate condition of
\* the 'active' listing holds and exactly when a cast is not rejected as
\* ended; an isActive poll is in exactly one of the 'active' and 'ended'
\* listings, and the responses of getPolls, getPollResults and voteOnPoll
\* are these.
C18_EndedAgrees ==
    [][/\ \A p \in PollIds :
            LET d == polls[p]
            IN d.exists =>
                 /\ d.isActive => (Matches(d, "active", now) <=> ~hasEnded(d, now))
                 /\ d.isActive => (Matches(d, "ended", now) <=> hasEnded(d, now))
                 /\ ~d.isActive => (~Matches(d, "active", now) /\ ~Matches(d, "ended", now))
                 /\ Results(d, now).hasEnded <=> hasEnded(d, now)
                 /\ \A u \in Voters, oi \in OptionInputs :
                      (Verdict(d, u, oi, now) = "ended") <=> hasEnded(d, now)
       /\ \A r \in Reqs :
            /\ (Handled(r) /\ mem[r].loaded.exists) =>
                 ((pc'[r] = "done" /\ resp'[r].message = "Poll has ended")
                    <=> hasEnded(mem[r].loaded, now))
            /\ (Read(r, "results") /\ ops'[r].status = 200) =>
                 (ops'[r].view.hasEnded <=> hasEnded(polls[ops'[r].pid], now))
            /\ (Read(r, "list") /\ ops'[r].message = "active") =>
                 ops'[r].view.listed =
                    {p \in PollIds : polls[p].exists /\ polls[p].isActive
                                       /\ ~hasEnded(polls[p], now)}
            /\ (Read(r, "list") /\ ops'[r].message = "ended") =>
                 ops'[r].view.listed =
                    {p \in PollIds : polls[p].exists /\ polls[p].isActive
                                       /\ hasEnded(polls[p], now)}]_vars

\* C18 happens: at now = endDate the poll was listed as active, its results
\* said it had not ended, and a cast on it was accepted
C18_Witness ==
    /\ now = 0 /\ polls["p1"].endDate = 0
    /\ \E r, q \in Reqs :
         /\ ops[r].kind = "list" /\ ops[r].message = "active"
         /\ "p1" \in ops[r].view.listed
         /\ pc[q] = "done" /\ resp[q].status = 200

\* the poll with every counter set to 0
Zeroed(doc) ==
    [doc EXCEPT !.options = [j \in 1..Len(doc.options) |->
                                [doc.options[j] EXCEPT !.votes = 0]]]

\* the ledger entries that name an option of the poll
InRange(doc) ==
    {k \in 1..Len(doc.votes) :
        doc.votes[k].optionIndex >= 0 /\ doc.votes[k].optionIndex < Len(doc.options)}

\* C20: for every stored poll (any ledger, any counters), the recount run
\* twice gives the counters of the recount run once, the recount gives the
\* counters it gives from counters 0, it counts exactly the entries that
\* name an option, and it leaves the ledger alone.
C20_RecountIdempotent ==
    \A p \in PollIds :
        LET d == polls[p]
            once == preSave(d)
        IN d.exists =>
             /\ preSave(once).options = once.options
             /\ once.options = preSave(Zeroed(d)).options
             /\ SumVotes(once.options, Len(once.options)) = Cardinality(InRange(d))
             /\ TallyMatches(once)
             /\ once.votes = d.votes

\* C20 happens: the recount has run on a poll whose ledger holds an entry
\* that names no option and whose counters were not those of the ledger
\* (the results reported before the recount show them)
C20_Witness ==
    \E r \in Reqs :
        /\ ops[r].kind = "results" /\ ops[r].status = 200
        /\ \E j \in 1..Len(polls["p1"].options) :
              ops[r].view.results[j].votes # polls["p1"].options[j].votes
        /\ TallyMatches(polls["p1"])
        /\ Cardinality(InRange(polls["p1"])) < Len(polls["p1"].votes)

\* ------------------------------------------------- casts and updates
\* the ledger entry of voter u in the document (existingVote # 0)
EntryOf(doc, u) == doc.votes[existingVote(doc.votes, u)]

\* the step in which the save of a cast of voter u writes
Saves(r, u) == pc[r] = "save" /\ pc'[r] = "populate" /\ arg[r].user = u

\* the step in which findByIdAndUpdate of update r writes to a stored poll
Updates(r) ==
    /\ ops[r].kind = "update" /\ ops[r].pc = "checked" /\ ops'[r].pc = "done"
    /\ polls[ops[r].pid].exists

\* C21: while a poll stays stored in single-vote mode (no update ever
\* switches allowMultiple back to false, so the mode is the one in which the
\* entry was recorded), no step of a cast or an update removes a voter's
\* ledger entry or changes its optionIndex; and a step that changes the
\* optionIndex of an entry is the save of a cast of that voter that loaded
\* the poll with allowMultiple = true.
C21_VotedIsTerminal ==
    [][\A p \in PollIds, u \in Voters :
          (polls[p].exists /\ polls'[p].exists /\ existingVote(polls[p].votes, u) # 0) =>
             /\ ~polls[p].allowMultiple =>
                   /\ existingVote(polls'[p].votes, u) # 0
                   /\ EntryOf(polls'[p], u).optionIndex = EntryOf(polls[p], u).optionIndex
             /\ (/\ existingVote(polls'[p].votes, u) # 0
                 /\ EntryOf(polls'[p], u).optionIndex # EntryOf(polls[p], u).optionIndex) =>
                   \E r \in Reqs : Saves(r, u) /\ arg[r].pid = p
                                   /\ mem[r].loaded.allowMultiple]_vars

\* C22: every ledger entry of every stored poll names an option of the
\* poll: 0 <= optionIndex < options.length.
C22_EntriesNameOptions ==
    \A p \in PollIds :
        polls[p].exists =>
            \A k \in 1..Len(polls[p].votes) :
                /\ polls[p].votes[k].optionIndex >= 0
                /\ polls[p].votes[k].optionIndex < Len(polls[p].options)

\* C23: the stored poll after an update whose body holds options or votes
\* has every option's counter equal to the number of ledger entries that
\* name the option; an update whose body holds neither leaves the counters
\* and the ledger as they were.
C23_UpdateRecounts ==
    [][\A r \in Reqs :
          Updates(r) =>
             LET before == polls[ops[r].pid]
                 after == polls'[ops[r].pid]
             IN IF ops[r].patch.has \cap {"options", "votes"} # {}
                THEN TallyMatches(after)
                ELSE after.options = before.options /\ after.votes = before.votes]_vars

\* the optionIndex is a number below 0 or not below len
OutOfRange(oi, len) == oi.kind \in {"int", "frac"} /\ (oi.n < 0 \/ oi.n >= len)

\* C24: a cast reports the first that holds of: no poll (404 'Poll not
\* found'), poll ended (400 'Poll has ended'), optionIndex out of range (400
\* 'Invalid option'), voter already in the ledger of a single-vote poll
\* (400 'You have already voted on this poll'), each on the document it
\* loaded; so an ended poll is reported as ended whatever the optionIndex
\* and the ledger, and an out-of-range optionIndex on an open poll as
\* invalid whatever the ledger.
C24_ChecksInOrder ==
    [][\A r \in Reqs :
          Handled(r) =>
             LET d == mem[r].doc
                 ended == d.endDate < now
                 out == OutOfRange(arg[r].optionIndex, Len(d.options))
                 voted == existingVote(d.votes, arg[r].user) # 0 /\ ~d.allowMultiple
             IN /\ ~d.exists => resp'[r] = Fail(404, "Poll not found")
                /\ (d.exists /\ ended) => resp'[r] = Fail(400, "Poll has ended")
                /\ (d.exists /\ ~ended /\ out) => resp'[r] = Fail(400, "Invalid option")
                /\ (d.exists /\ ~ended /\ ~out /\ voted) =>
                      resp'[r] = Fail(400, "You have already voted on this poll")
                /\ (d.exists /\ ~ended /\ ~out /\ ~voted) => resp'[r].status # 400
      ]_vars

\* C24 happens: a voter with an acknowledged vote on the single-vote poll
\* has cast again, while the poll was open, and was answered 'Invalid option'
C24_Witness ==
    \E r \in Reqs :
        /\ pc[r] = "done" /\ hist[r].priorAck
        /\ resp[r] = Fail(400, "Invalid option")
        /\ ~polls["p1"].allowMultiple

\* C25: every poll that getPolls lists is stored with isActive = true, is
\* in the requested endDate partition, has the club of the request when the
\* request names one, and is public unless the request names its club.
C25_ListedPassFilters ==
    [][\A r \in Reqs :
          Read(r, "list") =>
             \A p \in ops'[r].view.listed :
                 /\ polls[p].exists /\ polls[p].isActive
                 /\ Matches(polls[p], ops'[r].message, now)
                 /\ ops'[r].club # "" => polls[p].club = ops'[r].club
                 /\ ~polls[p].isPublic => polls[p].club = ops'[r].club
      ]_vars

\* another club and another district
Other(x) == IF x \in {"c1", "d1"} THEN "c2" ELSE "c1"

\* polls that differ from doc only in isActive, isPublic, isPinned,
\* showResults, club or district: in the fields of the set F, for F one
\* field or all of them
Flipped(doc, F) ==
    [doc EXCEPT !.isActive    = IF "isActive" \in F THEN ~@ ELSE @,
                !.isPublic    = IF "isPublic" \in F THEN ~@ ELSE @,
                !.isPinned    = IF "isPinned" \in F THEN ~@ ELSE @,
                !.showResults = IF "showResults" \in F THEN ~@ ELSE @,
                !.club        = IF "club" \in F THEN Other(@) ELSE @,
                !.district    = IF "district" \in F THEN Other(@) ELSE @]

Flags == {"isActive", "isPublic", "isPinned", "showResults", "club", "district"}

Twins(doc) == {Flipped(doc, {f}) : f \in Flags} \cup {Flipped(doc, Flags)}

\* the ledger and the counters of a document
Tally(doc) == <<doc.votes, doc.options>>

\* C26: for every poll that differs from the poll of a cast only in
\* isActive, isPublic, isPinned, showResults, club or district, the same
\* request has the same outcome: the same exit of the checks and the same
\* rejection, the same change of the loaded ledger, the same ledger and
\* counters written by the save; so a cast that a poll with isActive and
\* isPublic true accepts is accepted whatever the flags.  The request
\* carries the voter's id and optionIndex and nothing of the voter's role.
C26_FlagsDoNotMatter ==
    [][\A r \in Reqs :
          LET u == arg[r].user
              oi == arg[r].optionIndex
          IN /\ Handled(r) =>
                  \A t \in Twins(mem[r].doc) :
                      LET v == Verdict(t, u, oi, now)
                      IN IF v = "ok"
                         THEN /\ pc'[r] = "save"
                              /\ Tally(Mutate([mem[r] EXCEPT !.doc = t], u, oi).doc)
                                    = Tally(mem'[r].doc)
                         ELSE /\ pc'[r] = "done" /\ resp'[r] = Rejection(v)
                              /\ polls' = polls
             /\ (pc[r] = "save" /\ pc'[r] = "populate") =>
                  \A t \in Twins(Stored(r)) :
                      Tally(WriteBack(t, mem[r])) = Tally(polls'[arg[r].pid])
      ]_vars

\* C26 happens: a cast of a leo_member on a poll with isActive = false has
\* been answered 200 and its vote is stored
C26_Witness ==
    \E r \in Reqs :
        /\ pc[r] = "done" /\ resp[r].status = 200
        /\ arg[r].user = "u2" /\ roles["u2"] = "leo_member"
        /\ ~polls["p1"].isActive
        /\ existingVote(polls["p1"].votes, "u2") # 0

\* the option texts in their order
TextsOf(doc) == [j \in 1..Len(doc.options) |-> doc.options[j].text]

\* what a cast is not to change: everything but the ledger and the counters
Frame(doc) == [doc EXCEPT !.votes = <<>>, !.options = TextsOf(doc)]

\* C27: the save of a cast of voter v changes of the stored poll only v's
\* ledger entry and the counters: the entries of the other voters stay
\* where and as they are, every entry added is v's, the option texts and
\* their order, endDate and the flags stay, and the ledger grows by 1 when
\* v had no entry, by 0 when v's entry is changed in place, and never by
\* anything else.
C27_CastFrame ==
    [][\A r \in Reqs :
          (pc[r] = "save" /\ pc'[r] = "populate") =>
             LET v == arg[r].user
                 db == Stored(r)
                 after == polls'[arg[r].pid]
                 grown == Len(after.votes) - Len(db.votes)
             IN /\ grown \in {0, 1}
                /\ \A k \in 1..Len(db.votes) :
                      db.votes[k].user # v => after.votes[k] = db.votes[k]
                /\ \A k \in (Len(db.votes) + 1)..Len(after.votes) : after.votes[k].user = v
                /\ Frame(after) = Frame(db)
                /\ existingVote(db.votes, v) = 0 => grown = 1
                /\ (\E k \in 1..Len(db.votes) :
                       /\ db.votes[k].user = v
                       /\ after.votes[k].optionIndex # db.votes[k].optionIndex) => grown = 0
      ]_vars

\* cast r has loaded a poll that has been deleted since
InFlightOnDeleted(r) ==
    /\ pc[r] \in {"loaded", "save"}
    /\ mem[r].loaded.exists
    /\ ~polls[arg[r].pid].exists

\* C28: while a cast is in flight on a poll that was deleted after the cast
\* loaded it, no step stores a document under the poll's id, the cast does
\* not reach its populate and is not answered 200 (its save is answered
\* 500), and every get and results of a deleted id is answered 404.
C28_DeletedStaysDeleted ==
    [][\A r \in Reqs :
          /\ InFlightOnDeleted(r) =>
                /\ ~polls'[arg[r].pid].exists
                /\ pc'[r] # "populate"
                /\ pc'[r] = "done" => resp'[r].status # 200
                /\ (pc[r] = "save" /\ pc'[r] = "done") =>
                      resp'[r] = Fail(500, "Failed to submit vote")
          /\ (ops[r].pc = "idle" /\ ops'[r].kind \in {"get", "results"}
                  /\ Deleted(ops'[r].pid)) => ops'[r].status = 404
      ]_vars

\* C28 happens: a poll has been deleted, the save of a cast that had loaded
\* it has failed, and the id has no document
C28_Witness ==
    \E r, q \in Reqs :
        /\ pc[r] = "done" /\ hist[r].fault = "save" /\ resp[r].status = 500
        /\ ops[q].kind = "delete" /\ ops[q].status = 200
        /\ ~polls[ops[q].pid].exists

\* ---------------------------------------------------------- role updates
\* the step in which role update r writes and is answered 200
Granted(r) ==
    /\ ops[r].kind = "role" /\ ops[r].pc = "checked"
    /\ ops'[r].pc = "done" /\ ops'[r].status = 200

\* C29: a step changes the role or the role history of a user whose role
\* is super_admin only when it is the write of a role update whose caller
\* is that user; a role update that finds its target a super_admin other
\* than the caller is answered 403 and changes no user; a role update
\* answered 200 has set the role of its target to newRole and added to the
\* target's history exactly one entry, whose previousRole is the role the
\* target held before the write and whose newRole is the new role.
C29_RoleTransitions ==
    [][/\ \A u \in Users :
            (roles[u] = "super_admin"
                /\ (roles'[u] # roles[u] \/ roleHistory'[u] # roleHistory[u])) =>
               \E r \in Reqs : Granted(r) /\ ops[r].grant.target = u /\ ops[r].user = u
       /\ \A r \in Reqs :
            LET t == ops[r].grant.target
            IN /\ (/\ ops[r].kind = "role" /\ ops[r].pc = "authed" /\ ops'[r].pc # "authed"
                   /\ t \in Users /\ roles[t] = "super_admin" /\ ops[r].user # t) =>
                     /\ ops'[r].status = 403
                     /\ roles' = roles /\ roleHistory' = roleHistory
               /\ Granted(r) =>
                     /\ roles'[t] = ops[r].grant.newRole
                     /\ Len(roleHistory'[t]) = Len(roleHistory[t]) + 1
                     /\ SubSeq(roleHistory'[t], 1, Len(roleHistory[t])) = roleHistory[t]
                     /\ roleHistory'[t][Len(roleHistory'[t])].previousRole = roles[t]
                     /\ roleHistory'[t][Len(roleHistory'[t])].newRole = roles'[t]
                     /\ \A u \in Users \ {t} :
                           roles'[u] = roles[u] /\ roleHistory'[u] = roleHistory[u]
      ]_vars

\* the step in which role update r arrives and passes its checks or is
\* answered
Arrives(r) == ops[r].pc = "idle" /\ ops'[r].kind = "role"

\* the request has come to the passcode test of line 248: it has passed
\* it or has been answered 401
Tested(r) == ops'[r].pc = "authed" \/ ops'[r].status = 401

\* C30: a role update that comes to the passcode test passes it exactly
\* when its passcode is the configured SUPER_ADMIN_PASSCODE; a request with
\* another passcode of 4 characters is answered 401 'Invalid passcode' and
\* changes no user; a request with the configured passcode is never
\* answered 401.
C30_PasscodeTest ==
    [][\A r \in Reqs :
          Arrives(r) =>
             LET p == ops'[r].grant.passcode
             IN /\ Tested(r) => (ops'[r].pc = "authed" <=> p = env)
                /\ (Tested(r) /\ p # env) =>
                      /\ ops'[r].status = 401 /\ ops'[r].message = "Invalid passcode"
                      /\ roles' = roles /\ roleHistory' = roleHistory
                /\ p = env => ops'[r].status # 401
      ]_vars

====
